---- MODULE Spec2Model ----
(***************************************************************************)
(* A model of pymkv's MKVTrack (src/pymkv/MKVTrack.py): one track          *)
(* descriptor, its constructor and its property setters, together with     *)
(* the collaborators the setters call (expanduser, isfile,                 *)
(* verify_supported, is_ISO639_2 and the `mkvmerge -J` probe).             *)
(*                                                                         *)
(* A path is a sequence of components, so that expanduser has something    *)
(* to rewrite.  An exception is a record [type, msg].  The file system     *)
(* and the probe's answers are fixed for the length of a behaviour.        *)
(***************************************************************************)
EXTENDS Integers, Sequences, FiniteSets

\* The number of tracks of the largest container on the disk; track_id
\* arguments range over -1 .. MaxTracks, so both ends are out of range.
MaxTracks == 2

\* The number of assignments made to the descriptor after it is constructed.
MaxCalls == 2

(***************************************************************************)
(* Python values                                                           *)
(***************************************************************************)
None == "None"

\* _track_id holds an int or None; None is kept apart from every index.
NoneId == 0 - 1000

NonePath == << >>

NoError == [type |-> "none", msg |-> ""]

Exc(t, m) == [type |-> t, msg |-> m]

\* except ValueError also catches json.JSONDecodeError, its subclass.
IsValueError(e) == e.type \in {"ValueError", "JSONDecodeError"}

\* A value handed to the tags setter: a str (a path) or something else.
Str(p) == [pytype |-> "str", val |-> p]

NoneValue == [pytype |-> "NoneType", val |-> NonePath]

IntValue == [pytype |-> "int", val |-> NonePath]

isinstance_str(v) == v.pytype = "str"

(***************************************************************************)
(* The world: the user's home, the files on disk, the probe's answers      *)
(***************************************************************************)
Home == <<"home", "u">>

FileA == Home \o <<"a.mkv">>
FileB == <<"b.mka">>
FileE == <<"e.mkv">>
FileG == <<"g.mkv">>
FileK == <<"k.mkv">>
FileX == <<"x.mkv">>
FileU == <<"u.txt">>
FileT == Home \o <<"t.xml">>

TrackRecords ==
    << [codec |-> "AVC", type |-> "video"],
       [codec |-> "AAC", type |-> "audio"],
       [codec |-> "SubRip/SRT", type |-> "subtitles"] >>

\* The first n track records of a container: AVC/video, AAC/audio, SRT, ...
Inventory(n) == [k \in 1..n |-> TrackRecords[((k - 1) % 3) + 1]]

\* os.path.expanduser: a leading ~ component becomes the user's home.
expanduser(path) ==
    IF path # << >> /\ Head(path) = "~" THEN Home \o Tail(path) ELSE path

\* os.path.isfile: the regular files that exist.
isfile(path) == path \in {FileA, FileB, FileE, FileG, FileK, FileX, FileU, FileT}

\* pymkv.Verifications.verify_supported: the files mkvmerge accepts.
verify_supported(file_path) ==
    file_path \in {FileA, FileB, FileE, FileG, FileK, FileX}

\* The executables that exist.
Executables == {"mkvmerge"}

\* What `mkvmerge -J file_path` prints, or how it ends.
\*   tracks  : the JSON has a tracks list
\*   nokey   : the JSON has no tracks key
\*   garbled : the output is not JSON
\*   exit    : the process exits non-zero
mkvmerge_J(file_path) ==
    CASE file_path = FileA -> [kind |-> "tracks", tracks |-> Inventory(MaxTracks)]
      [] file_path = FileB -> [kind |-> "tracks", tracks |-> <<TrackRecords[2]>>]
      [] file_path = FileE -> [kind |-> "tracks", tracks |-> << >>]
      [] file_path = FileK -> [kind |-> "nokey", tracks |-> << >>]
      [] file_path = FileG -> [kind |-> "garbled", tracks |-> << >>]
      [] OTHER -> [kind |-> "exit", tracks |-> << >>]

\* pymkv.ISO639_2.is_ISO639_2: membership in the code table.
ISO639_2 == {"eng", "fre"}

is_ISO639_2(language) == language \in ISO639_2

(***************************************************************************)
(* Line 130-131: info_json = json.loads(sp.check_output([...]).decode())   *)
(* followed by info_json['tracks'].  The first failure wins: the           *)
(* executable is missing, the process exits non-zero, the output is not    *)
(* JSON, the JSON has no 'tracks'.                                         *)
(***************************************************************************)
check_output(mkvmerge_path, file_path) ==
    LET out == mkvmerge_J(file_path) IN
    IF mkvmerge_path \notin Executables
    THEN [raised |-> Exc("FileNotFoundError", "No such file or directory"), tracks |-> << >>]
    ELSE IF out.kind = "exit"
    THEN [raised |-> Exc("CalledProcessError", "returned non-zero exit status"), tracks |-> << >>]
    ELSE IF out.kind = "garbled"
    THEN [raised |-> Exc("JSONDecodeError", "Expecting value"), tracks |-> << >>]
    ELSE IF out.kind = "nokey"
    THEN [raised |-> Exc("KeyError", "tracks"), tracks |-> << >>]
    ELSE [raised |-> NoError, tracks |-> out.tracks]

(***************************************************************************)
(* The descriptor                                                          *)
(***************************************************************************)
VARIABLES
    self,         \* the MKVTrack object's attributes
    constructed,  \* __init__ has returned the object
    call,         \* the last call made: [op, arg]
    raised,       \* the exception the last call raised, or NoError
    probed,       \* the file arguments of the probes the last call ran, in order
    info_json,    \* the last inventory json.loads returned, and the file it is of
    calls         \* the assignments made since construction

vars == <<self, constructed, call, raised, probed, info_json, calls>>

\* The attributes before __init__ has assigned any of them.
NoObject ==
    [track_codec |-> None, track_type |-> None, mkvmerge_path |-> None,
     file_path |-> NonePath, track_id |-> NoneId, track_name |-> None,
     language |-> None, tags |-> NonePath,
     default_track |-> FALSE, forced_track |-> FALSE,
     no_chapters |-> FALSE, no_global_tags |-> FALSE,
     no_track_tags |-> FALSE, no_attachments |-> FALSE]

NoInfo == [file_path |-> NonePath, tracks |-> << >>]

\* A call in progress: the object, the exception raised so far, the probes run.
Enter(obj, ij) == [self |-> obj, raised |-> NoError, probed |-> << >>, info_json |-> ij]

\* Line 131: 0 <= track_id < len(info_json['tracks'])
InRange(track_id, n) == 0 <= track_id /\ track_id < n

\* A track_id setter that stores the index before it has checked it.
track_id_setter_StoreFirst(m, track_id) ==
    LET out == check_output(m.self.mkvmerge_path, m.self.file_path)
        log == Append(m.probed, m.self.file_path)
        ij  == [file_path |-> m.self.file_path, tracks |-> out.tracks]
    IN  IF out.raised # NoError
        THEN [m EXCEPT !.raised = out.raised, !.probed = log]
        ELSE IF ~InRange(track_id, Len(out.tracks))
        THEN [m EXCEPT !.self.track_id = track_id,
                       !.raised = Exc("IndexError", "track index out of range"),
                       !.probed = log, !.info_json = ij]
        ELSE [m EXCEPT !.self.track_id = track_id,
                       !.self.track_codec = out.tracks[track_id + 1].codec,
                       !.self.track_type = out.tracks[track_id + 1].type,
                       !.probed = log, !.info_json = ij]

\* Lines 128-135: the track_id setter.
track_id_setter(m, track_id) ==
    LET out == check_output(m.self.mkvmerge_path, m.self.file_path)
        log == Append(m.probed, m.self.file_path)
        ij  == [file_path |-> m.self.file_path, tracks |-> out.tracks]
    IN  IF out.raised # NoError
        THEN [m EXCEPT !.raised = out.raised, !.probed = log]
        ELSE IF ~InRange(track_id, Len(out.tracks))
        THEN [m EXCEPT !.raised = Exc("IndexError", "track index out of range"),
                       !.probed = log, !.info_json = ij]
        ELSE [m EXCEPT !.self.track_id = track_id,
                       !.self.track_codec = out.tracks[track_id + 1].codec,
                       !.self.track_type = out.tracks[track_id + 1].type,
                       !.probed = log, !.info_json = ij]

\* A file_path setter that writes _track_id = 0 itself, past the track_id setter.
file_path_setter_Bypass(m, file_path) ==
    LET fp == expanduser(file_path) IN
    IF ~verify_supported(fp)
    THEN [m EXCEPT !.raised = Exc("ValueError", "is not a supported file")]
    ELSE [m EXCEPT !.self.file_path = fp, !.self.track_id = 0]

\* A file_path setter that probes the new file before the support check.
file_path_setter_ProbeFirst(m, file_path) ==
    LET fp == expanduser(file_path)
        m1 == track_id_setter([m EXCEPT !.self.file_path = fp], 0)
    IN  IF ~verify_supported(fp)
        THEN [m EXCEPT !.raised = Exc("ValueError", "is not a supported file"),
                       !.probed = m1.probed]
        ELSE m1

\* Lines 109-115: the file_path setter.  _file_path is stored before
\* track_id = 0 runs the probe.
file_path_setter(m, file_path) ==
    LET fp == expanduser(file_path) IN
    IF ~verify_supported(fp)
    THEN [m EXCEPT !.raised = Exc("ValueError", "is not a supported file")]
    ELSE track_id_setter([m EXCEPT !.self.file_path = fp], 0)

\* A language setter that stores the code before it has validated it.
language_setter_StoreFirst(m, language) ==
    IF language = None \/ is_ISO639_2(language)
    THEN [m EXCEPT !.self.language = language]
    ELSE [m EXCEPT !.self.language = language,
                   !.raised = Exc("ValueError", "not an ISO639-2 language code")]

\* Lines 147-152: the language setter.
language_setter(m, language) ==
    IF language = None \/ is_ISO639_2(language)
    THEN [m EXCEPT !.self.language = language]
    ELSE [m EXCEPT !.raised = Exc("ValueError", "not an ISO639-2 language code")]

\* A tags setter that stores the path as given, not as expanded.
tags_setter_NoExpand(m, file_path) ==
    IF ~isinstance_str(file_path)
    THEN [m EXCEPT !.raised = Exc("TypeError", "is not of type str")]
    ELSE LET fp == expanduser(file_path.val) IN
         IF ~isfile(fp)
         THEN [m EXCEPT !.raised = Exc("FileNotFoundError", "does not exist")]
         ELSE [m EXCEPT !.self.tags = file_path.val]

\* Lines 162-169: the tags setter.
tags_setter(m, file_path) ==
    IF ~isinstance_str(file_path)
    THEN [m EXCEPT !.raised = Exc("TypeError", "is not of type str")]
    ELSE LET fp == expanduser(file_path.val) IN
         IF ~isfile(fp)
         THEN [m EXCEPT !.raised = Exc("FileNotFoundError", "does not exist")]
         ELSE [m EXCEPT !.self.tags = fp]

\* Runs step on m unless an exception is already on its way out.
Then(m, next) == IF m.raised # NoError THEN m ELSE next

\* A constructor that leaves the track at the 0 the file_path setter chose.
__init__FirstTrack(file_path, track_id, track_name, language, default_track, forced_track) ==
    LET m0 == Enter([NoObject EXCEPT !.mkvmerge_path = "mkvmerge"], NoInfo)
        m1 == file_path_setter(m0, file_path)
        m3 == Then(m1, language_setter(
                  [m1 EXCEPT !.self.track_name = track_name, !.self.language = None],
                  language))
    IN  Then(m3, [m3 EXCEPT !.self.tags = NonePath,
                            !.self.default_track = default_track,
                            !.self.forced_track = forced_track,
                            !.self.no_chapters = FALSE,
                            !.self.no_global_tags = FALSE,
                            !.self.no_track_tags = FALSE,
                            !.self.no_attachments = FALSE])

\* Lines 47-93: the constructor.
__init__(file_path, track_id, track_name, language, default_track, forced_track) ==
    LET m0 == Enter([NoObject EXCEPT !.mkvmerge_path = "mkvmerge"], NoInfo)
        m1 == file_path_setter(m0, file_path)
        m2 == Then(m1, track_id_setter([m1 EXCEPT !.self.track_id = NoneId], track_id))
        m3 == Then(m2, language_setter(
                  [m2 EXCEPT !.self.track_name = track_name, !.self.language = None],
                  language))
    IN  Then(m3, [m3 EXCEPT !.self.tags = NonePath,
                            !.self.default_track = default_track,
                            !.self.forced_track = forced_track,
                            !.self.no_chapters = FALSE,
                            !.self.no_global_tags = FALSE,
                            !.self.no_track_tags = FALSE,
                            !.self.no_attachments = FALSE])

(***************************************************************************)
(* The arguments the calls are made with                                   *)
(***************************************************************************)
PathArgs ==
    { <<"~", "a.mkv">>, FileB, FileE, FileG, FileK, FileX, FileU, <<"~", "gone.mkv">> }

TrackIdArgs == (0 - 1) .. MaxTracks

NameArgs == {None, "Commentary"}

LanguageArgs == {None, "eng", "xyz"}

TagsArgs == { Str(<<"~", "t.xml">>), Str(<<"~", "gone.xml">>), NoneValue, IntValue }

MkvmergeArgs == {"mkvmerge", "/opt/nosuch"}

(***************************************************************************)
(* The calls                                                               *)
(***************************************************************************)
\* MKVTrack(...): the object exists only if __init__ raises nothing.
Construct(file_path, track_id, track_name, language, default_track, forced_track) ==
    /\ call.op = "none"
    /\ LET m == __init__(file_path, track_id, track_name, language,
                         default_track, forced_track)
       IN  /\ self' = IF m.raised = NoError THEN m.self ELSE NoObject
           /\ constructed' = (m.raised = NoError)
           /\ raised' = m.raised
           /\ probed' = m.probed
           /\ info_json' = m.info_json
    /\ call' = [op |-> "__init__",
                arg |-> [file_path |-> file_path, track_id |-> track_id,
                         track_name |-> track_name, language |-> language,
                         default_track |-> default_track,
                         forced_track |-> forced_track]]
    /\ calls' = 0

\* An assignment through a property setter: what the setter stored before it
\* raised stays stored.
Assign(op, arg, m) ==
    /\ constructed
    /\ calls < MaxCalls
    /\ self' = m.self
    /\ raised' = m.raised
    /\ probed' = m.probed
    /\ info_json' = m.info_json
    /\ call' = [op |-> op, arg |-> arg]
    /\ calls' = calls + 1
    /\ UNCHANGED constructed

SetFilePath(file_path) ==
    Assign("file_path", file_path, file_path_setter(Enter(self, info_json), file_path))

SetTrackId(track_id) ==
    Assign("track_id", track_id, track_id_setter(Enter(self, info_json), track_id))

SetLanguage(language) ==
    Assign("language", language, language_setter(Enter(self, info_json), language))

SetTags(file_path) ==
    Assign("tags", file_path, tags_setter(Enter(self, info_json), file_path))

\* The plain attributes: an assignment stores the value and runs no code.
SetTrackName(v) ==
    Assign("track_name", v, Enter([self EXCEPT !.track_name = v], info_json))

SetMkvmergePath(v) ==
    Assign("mkvmerge_path", v, Enter([self EXCEPT !.mkvmerge_path = v], info_json))

SetDefaultTrack(v) ==
    Assign("default_track", v, Enter([self EXCEPT !.default_track = v], info_json))

SetForcedTrack(v) ==
    Assign("forced_track", v, Enter([self EXCEPT !.forced_track = v], info_json))

SetNoChapters(v) ==
    Assign("no_chapters", v, Enter([self EXCEPT !.no_chapters = v], info_json))

SetNoGlobalTags(v) ==
    Assign("no_global_tags", v, Enter([self EXCEPT !.no_global_tags = v], info_json))

SetNoTrackTags(v) ==
    Assign("no_track_tags", v, Enter([self EXCEPT !.no_track_tags = v], info_json))

SetNoAttachments(v) ==
    Assign("no_attachments", v, Enter([self EXCEPT !.no_attachments = v], info_json))

Init ==
    /\ self = NoObject
    /\ constructed = FALSE
    /\ call = [op |-> "none", arg |-> None]
    /\ raised = NoError
    /\ probed = << >>
    /\ info_json = NoInfo
    /\ calls = 0

Next ==
    \/ \E p \in PathArgs, i \in TrackIdArgs, n \in NameArgs, l \in LanguageArgs,
          d \in BOOLEAN, f \in BOOLEAN : Construct(p, i, n, l, d, f)
    \/ \E p \in PathArgs : SetFilePath(p)
    \/ \E i \in TrackIdArgs : SetTrackId(i)
    \/ \E l \in LanguageArgs : SetLanguage(l)
    \/ \E v \in TagsArgs : SetTags(v)
    \/ \E v \in NameArgs : SetTrackName(v)
    \/ \E v \in MkvmergeArgs : SetMkvmergePath(v)
    \/ \E v \in BOOLEAN : SetDefaultTrack(v)
    \/ \E v \in BOOLEAN : SetForcedTrack(v)
    \/ \E v \in BOOLEAN : SetNoChapters(v)
    \/ \E v \in BOOLEAN : SetNoGlobalTags(v)
    \/ \E v \in BOOLEAN : SetNoTrackTags(v)
    \/ \E v \in BOOLEAN : SetNoAttachments(v)

Spec == Init /\ [][Next]_vars

(***************************************************************************)
(* Vocabulary of the properties                                            *)
(***************************************************************************)
\* The identity and derived attributes of a descriptor.
Identity(obj) == <<obj.file_path, obj.track_id, obj.track_codec, obj.track_type>>

\* What the probe, run now by this descriptor on file fp, would report.
Reported(obj, fp) == check_output(obj.mkvmerge_path, fp)

IndexError == Exc("IndexError", "track index out of range")
UnsupportedFile == Exc("ValueError", "is not a supported file")
InvalidLanguage == Exc("ValueError", "not an ISO639-2 language code")

PlainOps ==
    {"track_name", "mkvmerge_path", "default_track", "forced_track",
     "no_chapters", "no_global_tags", "no_track_tags", "no_attachments"}

(***************************************************************************)
(* C1.  In every state of a constructed descriptor, track_codec and        *)
(* track_type are the codec and type of record track_id of the inventory   *)
(* most recently loaded, and that inventory is the one of the current      *)
(* file_path.                                                              *)
(***************************************************************************)
C1_CodecTypeDescribeCurrentPair ==
    constructed =>
        /\ info_json.file_path = self.file_path
        /\ self.track_id + 1 \in DOMAIN info_json.tracks
        /\ self.track_codec = info_json.tracks[self.track_id + 1].codec
        /\ self.track_type = info_json.tracks[self.track_id + 1].type

(***************************************************************************)
(* C2.  A file_path assignment that raises leaves file_path, track_id,     *)
(* track_codec and track_type as they were.                                *)
(***************************************************************************)
C2_FailedFilePathKeepsState ==
    [][(call'.op = "file_path" /\ raised' # NoError)
          => Identity(self') = Identity(self)]_vars

(***************************************************************************)
(* C3.  When the probe reports n tracks for the current file_path,         *)
(* track_id = i with i < 0 or i >= n raises IndexError and changes no      *)
(* attribute, and with 0 <= i < n it stores i and the codec and type of    *)
(* record i and changes nothing else.                                      *)
(***************************************************************************)
C3_TrackIdAssignment ==
    [][call'.op = "track_id" =>
        LET rep == Reported(self, self.file_path)
            i   == call'.arg
        IN  rep.raised = NoError =>
              IF i < 0 \/ i >= Len(rep.tracks)
              THEN raised' = IndexError /\ self' = self
              ELSE /\ raised' = NoError
                   /\ self' = [self EXCEPT !.track_id = i,
                                           !.track_codec = rep.tracks[i + 1].codec,
                                           !.track_type = rep.tracks[i + 1].type]]_vars

\* track_id = 1 gave AAC/audio, and an index past the end was then refused.
C3_Witness ==
    /\ call.op = "track_id"
    /\ call.arg = Len(info_json.tracks)
    /\ raised = IndexError
    /\ self.file_path = FileA
    /\ self.track_id = 1
    /\ self.track_codec = "AAC"
    /\ self.track_type = "audio"

(***************************************************************************)
(* C4.  In every state of a constructed descriptor, track_id is an index   *)
(* into the inventory most recently loaded for the current file_path.      *)
(***************************************************************************)
C4_TrackIdIndexesInventory ==
    constructed =>
        /\ info_json.file_path = self.file_path
        /\ 0 <= self.track_id
        /\ self.track_id < Len(info_json.tracks)

(***************************************************************************)
(* C5.  After a file_path assignment that raises nothing, file_path is     *)
(* the user-expanded argument, track_id is 0 and track_codec and           *)
(* track_type are those of the first track the probe reports for the new   *)
(* file, whatever track_id was before; nothing else has changed.           *)
(***************************************************************************)
C5_FilePathAssignmentResets ==
    [][(call'.op = "file_path" /\ raised' = NoError) =>
        LET fp  == expanduser(call'.arg)
            rep == Reported(self, fp)
        IN  /\ verify_supported(fp)
            /\ rep.raised = NoError
            /\ Len(rep.tracks) > 0
            /\ self' = [self EXCEPT !.file_path = fp,
                                    !.track_id = 0,
                                    !.track_codec = rep.tracks[1].codec,
                                    !.track_type = rep.tracks[1].type]]_vars

\* The descriptor sat on track 1 of a.mkv or on a half-assigned file, and was
\* moved to b.mka, written relative, or to a.mkv, written with a tilde.
C5_Witness ==
    /\ call.op = "file_path"
    /\ raised = NoError
    /\ calls = 2
    /\ self.track_id = 0
    /\ \/ call.arg = FileB /\ self.file_path = FileB /\ self.track_codec = "AAC"
       \/ call.arg = <<"~", "a.mkv">> /\ self.file_path = FileA /\ self.track_codec = "AVC"

(***************************************************************************)
(* C6.  MKVTrack(f, i, name, language, default, forced): raises the        *)
(* unsupported-file error if the support check rejects f; else, the probe  *)
(* reporting n tracks, IndexError if i is not in 0..n-1; else the          *)
(* invalid-language error if language is neither None nor in the codeset;  *)
(* else returns a descriptor with the expanded path, track_id = i, the     *)
(* codec and type of record i, the given name, language, default and       *)
(* forced values, no tags and the four exclusion flags false.              *)
(***************************************************************************)
C6_Construction ==
    call.op = "__init__" =>
        LET a   == call.arg
            fp  == expanduser(a.file_path)
            rep == check_output("mkvmerge", fp)
            n   == Len(rep.tracks)
        IN  IF ~verify_supported(fp)
            THEN ~constructed /\ raised = UnsupportedFile
            ELSE rep.raised = NoError =>
                 IF a.track_id < 0 \/ a.track_id >= n
                 THEN ~constructed /\ raised = IndexError
                 ELSE IF a.language # None /\ ~is_ISO639_2(a.language)
                 THEN ~constructed /\ raised = InvalidLanguage
                 ELSE /\ constructed
                      /\ raised = NoError
                      /\ self = [track_codec |-> rep.tracks[a.track_id + 1].codec,
                                 track_type |-> rep.tracks[a.track_id + 1].type,
                                 mkvmerge_path |-> "mkvmerge",
                                 file_path |-> fp,
                                 track_id |-> a.track_id,
                                 track_name |-> a.track_name,
                                 language |-> a.language,
                                 tags |-> NonePath,
                                 default_track |-> a.default_track,
                                 forced_track |-> a.forced_track,
                                 no_chapters |-> FALSE,
                                 no_global_tags |-> FALSE,
                                 no_track_tags |-> FALSE,
                                 no_attachments |-> FALSE]

\* The second track of ~/a.mkv, constructed with a name, a language and flags.
C6_Witness ==
    /\ call.op = "__init__"
    /\ constructed
    /\ call.arg.file_path = <<"~", "a.mkv">>
    /\ self.file_path = FileA
    /\ self.track_id = 1
    /\ self.track_codec = "AAC"
    /\ self.track_name = "Commentary"
    /\ self.language = "eng"
    /\ self.default_track
    /\ ~self.forced_track

(***************************************************************************)
(* C7.  language = c stores c and raises nothing if c is None or in the    *)
(* codeset, and otherwise raises the invalid-language error and leaves     *)
(* the stored language as it was; so the language of a descriptor is       *)
(* always None or in the codeset.                                          *)
(***************************************************************************)
C7_LanguageAssignment ==
    /\ [](constructed => (self.language = None \/ self.language \in ISO639_2))
    /\ [][call'.op = "language" =>
            LET c == call'.arg IN
            IF c = None \/ c \in ISO639_2
            THEN raised' = NoError /\ self' = [self EXCEPT !.language = c]
            ELSE raised' = InvalidLanguage /\ self' = self]_vars

\* "xyz" was refused and the language stored before it, "eng", is still there.
C7_Witness ==
    /\ call.op = "language"
    /\ call.arg = "xyz"
    /\ raised = InvalidLanguage
    /\ self.language = "eng"

(***************************************************************************)
(* C8.  tags = p raises TypeError if p is not a str (None included),       *)
(* raises FileNotFoundError if p is a str whose expanded path is no        *)
(* regular file, and otherwise stores the expanded path; a refused         *)
(* assignment leaves tags as it was, so tags is always None or the path    *)
(* of a regular file.                                                      *)
(***************************************************************************)
C8_TagsAssignment ==
    /\ [](self.tags = NonePath \/ isfile(self.tags))
    /\ [][call'.op = "tags" =>
            LET p == call'.arg IN
            IF p.pytype # "str"
            THEN raised'.type = "TypeError" /\ self' = self
            ELSE IF ~isfile(expanduser(p.val))
            THEN raised' = Exc("FileNotFoundError", "does not exist") /\ self' = self
            ELSE /\ raised' = NoError
                 /\ self' = [self EXCEPT !.tags = expanduser(p.val)]]_vars

\* ~/t.xml is stored expanded, and a later None or missing path is refused.
C8_Witness ==
    /\ call.op = "tags"
    /\ raised # NoError
    /\ call.arg \in {NoneValue, Str(<<"~", "gone.xml">>)}
    /\ self.tags = FileT

(***************************************************************************)
(* C9.  Every failure of the probe during construction, a file_path        *)
(* assignment or a track_id assignment reaches the caller as the           *)
(* unsupported-file error kind (ValueError), with the probe run at most    *)
(* once per track_id assignment.                                           *)
(***************************************************************************)
\* The last call ran the probe and the last probe it ran failed.
ProbeFailed ==
    /\ call.op \in {"__init__", "file_path", "track_id"}
    /\ probed # << >>
    /\ LET exe == IF call.op = "__init__" THEN "mkvmerge" ELSE self.mkvmerge_path
       IN  check_output(exe, probed[Len(probed)]).raised # NoError

C9_ProbeFailureIsUnsupportedFile ==
    ProbeFailed =>
        /\ IsValueError(raised)
        /\ (call.op = "track_id" => Len(probed) = 1)

(***************************************************************************)
(* C10.  The probe runs only in the track_id setter: a track_id            *)
(* assignment runs it once, on the current file_path; a file_path          *)
(* assignment runs it once, on the new path, if the support check accepts  *)
(* the path and not at all if it rejects it; the language, tags and plain  *)
(* attribute assignments run no probe and leave file_path, track_id,       *)
(* track_codec and track_type as they were.                                *)
(***************************************************************************)
C10_ProbeOnlyInTrackIdSetter ==
    /\ [](call.op = "track_id" => probed = <<self.file_path>>)
    /\ [](call.op = "file_path" =>
            probed = IF verify_supported(expanduser(call.arg))
                     THEN <<expanduser(call.arg)>> ELSE << >>)
    /\ [](call.op \in PlainOps \cup {"language", "tags"} => probed = << >>)
    /\ [][call'.op \in PlainOps \cup {"language", "tags"}
            => Identity(self') = Identity(self) /\ info_json' = info_json]_vars
    /\ [][call'.op = "track_id" => self'.file_path = self.file_path]_vars

\* An unsupported path was refused with no probe run, after an assignment.
C10_Witness ==
    /\ call.op = "file_path"
    /\ raised = UnsupportedFile
    /\ probed = << >>
    /\ calls = 2
    /\ self.tags = FileT

====
